---- MODULE Spec2Model ----
(***************************************************************************)
(* Model of the voice-agent pipeline: the capture buffer (audio.rs), the   *)
(* signal processor (audio_processor.rs), the chunk transcription loop     *)
(* (whisper.rs) and the calibration / profile hand-over (calibration.rs,   *)
(* main.rs).  Each component has its own specification over one shared     *)
(* list of variables; a specification leaves the other components' state   *)
(* at its initial value.                                                   *)
(***************************************************************************)
EXTENDS Integers, Sequences, FiniteSets, TLC

(***************************************************************************)
(* Bounds of the model.                                                    *)
(***************************************************************************)
\* longest input signal, in samples
MaxLen == 5
\* largest chunk duration and largest minimum-chunk duration, in duration
\* units (DurUnit units make one sample)
MaxChunkDur == 6
MaxMinDur == 4
\* duration units per sample: models the truncation of
\* (secs * SAMPLE_RATE as f32) as usize
DurUnit == 2
\* samples per analysis frame (SAMPLE_RATE / 100 = 160 in the source)
frame_size == 2

\* most chunks handed to one transcribe_chunks run
MaxChunks == 3
\* most segments the engine reports for one chunk
MaxSegs == 1
\* bytes of accumulated text carried into the next prompt (100 in the source)
CtxLimit == 2

\* most blocks the capture source delivers, most samples in a block
\* (BufferSize::Fixed(1600) in the source), most stop() calls
MaxBlocks == 2
BlockLen == 2
MaxStops == 3
\* most start / drop / stop events of the control thread's capture sessions
MaxSessionOps == 9

\* calibration phrases (6 in the source), most characters in one phrase's
\* transcription
NumPhrases == 2
MaxCalTextLen == 2
\* bytes of collected text kept as the prompt (300 in the source), and the
\* byte length a transcription must exceed to be collected (5 in the source)
PromptLimit == 3
MinCalLen == 1

(***************************************************************************)
(* Sample values are amplitudes in thousandths (0.5 is 500): a strong      *)
(* sample, a zero, and a sample just above the silence threshold (0.0316), *)
(* which does not lift the RMS of a frame it shares with zeros above it.   *)
(***************************************************************************)
Samples == {-500, 0, 40}

\* the square of db_to_linear(-30.0) = 10^(-30/20), in thousandths squared
ThresholdSq == 1000
\* the headroom peak 0.95 of normalize, in thousandths
NormPeak == 950
\* the width of usize for the wrapping subtraction of an unchecked build
\* (2^30 stands for 2^64: the model checker's integers are 32 bits wide)
UsizeMod == 1073741824

VARIABLES
    \* ---- audio_processor.rs ----
    cfg,              \* AudioProcessor: the three durations, in duration units
    overflow_checks,  \* the build: TRUE panics on integer overflow, FALSE wraps
    entry,            \* the function called: "process" or "chunk_with_overlap"
    audio,            \* the argument of the call
    trimmed,          \* process: the result of trim_silence
    signal,           \* the argument of chunk_with_overlap
    chunks,           \* chunk_with_overlap: the chunks pushed so far / returned
    pos,              \* chunk_with_overlap: the window position
    starts,           \* history: the window position of every pushed chunk
    ppc               \* position in process / chunk_with_overlap

procVars == <<cfg, overflow_checks, entry, audio, trimmed, signal, chunks, pos,
              starts, ppc>>

VARIABLES
    \* ---- whisper.rs ----
    calibration_prompt, \* WhisperModel.calibration_prompt: <<>> is None, <<p>> is Some(p)
    nchunks,            \* chunks.len() of the running transcribe_chunks call
    k,                  \* the chunk the loop is at, 1-based
    full_text,          \* the text accumulated by the loop
    calls,              \* history: one record per engine invocation
    result,             \* <<>> until the call returns, then <<Ok or Err record>>
    wpc                 \* position in transcribe_chunks

whisperVars == <<calibration_prompt, nchunks, k, full_text, calls, result, wpc>>

VARIABLES
    \* ---- audio.rs ----
    buffer,     \* AudioRecorder.buffer: the samples behind the mutex
    lock,       \* the mutex: "free", or the holder "callback" / "stop"
    stream,     \* the cpal stream of the last start(): <<>> once dropped, else <<format>>
    cb_pc,      \* the input callback: "idle" or "locked" (inside if let Ok(mut b))
    cb_data,    \* the block the running callback was given
    cb_i,       \* I16 callback: samples of the block pushed so far
    st_pc,      \* stop(): "idle" or "locked"
    returned,   \* history: what every stop() returned, and how many samples
                \* had been appended since the stop() before it
    delivered,  \* history: the blocks given to the callback, in order
    fresh,      \* history: samples appended since the last drain
    start_result \* how the last start() ended: "none" before the first call,
                \* "stream" (the stream was returned) or "panic"

recVars == <<buffer, lock, stream, cb_pc, cb_data, cb_i, st_pc, returned, delivered,
             fresh, start_result>>

VARIABLES
    \* ---- main.rs, calibration.rs, ui.rs ----
    force_calibrate, \* main: --calibrate / -c was given
    profile_file,    \* profile.json: <<>> when absent, else <<[ok, prompt]>>
                     \* (ok FALSE: it cannot be read or parsed)
    phrase,          \* run_calibration: the phrase of the for loop, 1-based
    collected_text,  \* run_calibration: the transcriptions collected so far
    recording,       \* main: the AtomicBool of the toggle closure
    handed,          \* history: the arguments of set_calibration_prompt and
                     \* the text each was made from
    session_log,     \* history: the calls of recorder.start() ("start"), the
                     \* drops of a stream ("drop") and the calls of
                     \* recorder.stop() ("stop"), in program order
    skipped,         \* output: the phrases for which "skipped" was printed
    mpc              \* position in main / run_calibration / run_ui

mainVars == <<force_calibrate, profile_file, phrase, collected_text, recording, handed,
              session_log, skipped, mpc>>

vars == <<procVars, whisperVars, recVars, mainVars>>

(***************************************************************************)
(* The state each component is left in by the specifications of the others.*)
(***************************************************************************)
ProcIdle ==
    /\ cfg = [chunk_duration |-> 2, overlap |-> 1, min_chunk |-> 1]
    /\ overflow_checks = TRUE
    /\ entry = "process"
    /\ audio = <<>>
    /\ trimmed = <<>>
    /\ signal = <<>>
    /\ chunks = <<>>
    /\ pos = 0
    /\ starts = <<>>
    /\ ppc = "idle"

\* AudioRecorder::new
RecIdle ==
    /\ buffer = <<>>
    /\ lock = "free"
    /\ stream = <<>>
    /\ cb_pc = "idle"
    /\ cb_data = <<>>
    /\ cb_i = 0
    /\ st_pc = "idle"
    /\ returned = <<>>
    /\ delivered = <<>>
    /\ fresh = 0
    /\ start_result = "none"

MainIdle ==
    /\ force_calibrate = FALSE
    /\ profile_file = <<>>
    /\ phrase = 0
    /\ collected_text = <<>>
    /\ recording = FALSE
    /\ handed = <<>>
    /\ session_log = <<>>
    /\ skipped = {}
    /\ mpc = "idle"

WhisperIdle ==
    /\ calibration_prompt = <<>>
    /\ nchunks = 0
    /\ k = 0
    /\ full_text = <<>>
    /\ calls = <<>>
    /\ result = <<>>
    /\ wpc = "idle"


(***************************************************************************)
(* Helpers on sequences.                                                   *)
(***************************************************************************)
\* the Rust slice s[from..to], 0-based, to exclusive
Slice(s, from, to) == SubSeq(s, from + 1, to)

Min2(a, b) == IF a < b THEN a ELSE b

Abs(x) == IF x < 0 THEN -x ELSE x

RECURSIVE SeqsUpTo(_, _)
SeqsUpTo(S, n) ==
    IF n = 0 THEN {<<>>}
    ELSE LET shorter == SeqsUpTo(S, n - 1)
         IN  shorter \cup {Append(s, x) : s \in {t \in shorter : Len(t) = n - 1}, x \in S}

(***************************************************************************)
(* audio_processor.rs                                                      *)
(***************************************************************************)
RECURSIVE SumSq(_)
SumSq(samples) ==
    IF samples = <<>> THEN 0
    ELSE Head(samples) * Head(samples) + SumSq(Tail(samples))

\* rms > threshold, with rms = sqrt(sum_sq / len) and rms = 0.0 on an empty
\* slice: compared on the squares
RmsAboveThreshold(samples) ==
    IF samples = <<>> THEN FALSE
    ELSE SumSq(samples) > ThresholdSq * Len(samples)

\* the frame starts (0..len).step_by(frame_size)
FrameStarts(len) == {i \in 0..(len - 1) : i % frame_size = 0}

FrameEnd(a, i) == Min2(i + frame_size, Len(a))

LoudFrames(a) == {i \in FrameStarts(Len(a)) : RmsAboveThreshold(Slice(a, i, FrameEnd(a, i)))}

SetMin(S) == CHOOSE x \in S : \A y \in S : x <= y
SetMax(S) == CHOOSE x \in S : \A y \in S : x >= y

\* the forward scan: start stays 0 when no frame is above the threshold
TrimStart(a) == IF LoudFrames(a) = {} THEN 0 ELSE SetMin(LoudFrames(a))

\* a backward scan that never moves end
TrimEnd_noScan(a) == Len(a)

\* the backward scan: end stays audio.len() when no frame is above the threshold
TrimEnd(a) == IF LoudFrames(a) = {} THEN Len(a) ELSE FrameEnd(a, SetMax(LoudFrames(a)))

trim_silence(a) ==
    IF a = <<>> THEN <<>>
    ELSE IF TrimStart(a) >= TrimEnd(a) THEN <<>>
    ELSE Slice(a, TrimStart(a), TrimEnd(a))

RECURSIVE MaxAbs(_)
MaxAbs(a) ==
    IF a = <<>> THEN 0
    ELSE LET m == MaxAbs(Tail(a)) IN IF Abs(Head(a)) > m THEN Abs(Head(a)) ELSE m

\* s * (0.95 / max_val), rounded toward zero on the thousandths grid
Scale(s, max_val) ==
    IF s < 0 THEN -((-s * NormPeak) \div max_val) ELSE (s * NormPeak) \div max_val

\* max_val < 1e-6 is max_val = 0 on the thousandths grid
normalize(a) ==
    IF a = <<>> THEN <<>>
    ELSE IF MaxAbs(a) = 0 THEN a
    ELSE [i \in 1..Len(a) |-> Scale(a[i], MaxAbs(a))]

\* (secs * SAMPLE_RATE as f32) as usize
ToSamples(d) == d \div DurUnit

chunk_samples == ToSamples(cfg.chunk_duration)
overlap_samples == ToSamples(cfg.overlap)
\* the minimum of a min_chunk_secs of zero: a chunker with no minimum length
min_samples_none == ToSamples(0)
min_samples == ToSamples(cfg.min_chunk)
\* a step that adds the overlap
step_added == chunk_samples + overlap_samples
step == chunk_samples - overlap_samples

ShortResult_strict(a, min_len) == IF Len(a) > min_len THEN <<a>> ELSE <<>>

\* the early return for a signal no longer than one chunk
ShortResult(a, min_len) == IF Len(a) >= min_len THEN <<a>> ELSE <<>>

\* audio.len() - pos on usize in an unchecked build
WrappingSub(a, b) == (a - b) % UsizeMod

\* ProcessingConfig: overlap < chunk duration, all durations > 0
Configs ==
    {c \in [chunk_duration : 1..MaxChunkDur, overlap : 1..MaxChunkDur,
            min_chunk : 1..MaxMinDur] : c.overlap < c.chunk_duration}

(***************************************************************************)
(* whisper.rs.  A text is a sequence of characters; "a" stands for a       *)
(* 1-byte character, "ya" for a 2-byte (Cyrillic) one, " " is the space.   *)
(* String::len and string slicing count bytes.                             *)
(***************************************************************************)
EngineChars == {"a", "ya"}

Width(c) == IF c = "ya" THEN 2 ELSE 1

\* String::len(): the length in bytes
RECURSIVE ByteLen(_)
ByteLen(t) == IF t = <<>> THEN 0 ELSE Width(Head(t)) + ByteLen(Tail(t))

is_char_boundary(t, b) == \E i \in 0..Len(t) : ByteLen(SubSeq(t, 1, i)) = b

\* &t[b..] for b on a character boundary
ByteSliceFrom(t, b) ==
    LET i == CHOOSE j \in 0..Len(t) : ByteLen(SubSeq(t, 1, j)) = b
    IN  SubSeq(t, i + 1, Len(t))

saturating_sub(a, b) == IF a > b THEN a - b ELSE 0

None == <<>>
Some(x) == <<x>>

\* the prompt of an invocation that always formats "{cal} {context}"
BuildPrompt_alwaysJoin(cal, text) ==
    LET ctx_start == saturating_sub(ByteLen(text), CtxLimit)
    IN  IF ~is_char_boundary(text, ctx_start) THEN [panic |-> TRUE, prompt |-> <<>>]
        ELSE [panic |-> FALSE,
              prompt |-> (IF cal = None THEN <<>> ELSE cal[1] \o <<" ">>)
                            \o ByteSliceFrom(text, ctx_start)]

\* the match on (&self.calibration_prompt, full_text.is_empty()): the prompt
\* string, or a panic when the slice start is inside a character
BuildPrompt(cal, text) ==
    LET ctx_start == saturating_sub(ByteLen(text), CtxLimit)
    IN  IF text = <<>>
        THEN [panic |-> FALSE, prompt |-> IF cal = None THEN <<>> ELSE cal[1]]
        ELSE IF ~is_char_boundary(text, ctx_start)
        THEN [panic |-> TRUE, prompt |-> <<>>]
        ELSE IF cal = None
        THEN [panic |-> FALSE, prompt |-> ByteSliceFrom(text, ctx_start)]
        ELSE [panic |-> FALSE,
              prompt |-> cal[1] \o <<" ">> \o ByteSliceFrom(text, ctx_start)]

\* what the engine does on one invocation: create_state and full succeed or
\* fail; full_n_segments fails or reports n; each full_get_segment_text(i)
\* fails ("err" as <<>>) or yields a text (<<text>>)
\* (a segment's text is one character here; longer texts come from several
\* segments and chunks)
SegTexts == {<<c>> : c \in EngineChars}
SegReads == {None} \cup {Some(t) : t \in SegTexts}
EngineErrors == {"e1", "e2"}

EngineOutcomes ==
    {[create |-> Some(e), full |-> None, n_segments |-> None, reads |-> <<>>] :
        e \in EngineErrors}
    \cup {[create |-> None, full |-> Some(e), n_segments |-> None, reads |-> <<>>] :
        e \in EngineErrors}
    \cup {[create |-> None, full |-> None, n_segments |-> None, reads |-> <<>>]}
    \cup {[create |-> None, full |-> None, n_segments |-> Some(Len(r)), reads |-> r] :
        r \in SeqsUpTo(SegReads, MaxSegs)}

\* the two map_err(..)? of an invocation: the error returned, if any
FailureOf_fullIgnored(o) ==
    IF o.create # None THEN Some([msg |-> "Failed to create state", cause |-> o.create[1]])
    ELSE None

FailureOf(o) ==
    IF o.create # None THEN Some([msg |-> "Failed to create state", cause |-> o.create[1]])
    ELSE IF o.full # None THEN Some([msg |-> "Failed to run model", cause |-> o.full[1]])
    ELSE None

\* the segment loop over a separator
RECURSIVE ReadSegments_spaced(_)
ReadSegments_spaced(o) ==
    IF o.n_segments = None \/ o.reads = <<>> THEN <<>>
    ELSE LET rest == ReadSegments_spaced([o EXCEPT !.reads = Tail(o.reads)])
             seg == Head(o.reads)
         IN  IF seg = None THEN rest ELSE seg[1] \o <<" ">> \o rest

\* the segment loop: full_n_segments().unwrap_or(0) reads, each pushed when Ok
RECURSIVE ReadSegments(_)
ReadSegments(o) ==
    IF o.n_segments = None \/ o.reads = <<>> THEN <<>>
    ELSE LET rest == ReadSegments([o EXCEPT !.reads = Tail(o.reads)])
             seg == Head(o.reads)
         IN  IF seg = None THEN rest ELSE seg[1] \o rest

CalPrompts == SeqsUpTo(EngineChars, 1)

\* WhisperModel::new
InitWhisper == ProcIdle /\ WhisperIdle /\ RecIdle /\ MainIdle

\* set_calibration_prompt: an empty prompt leaves the field as it is
set_calibration_prompt(current, prompt) == IF prompt # <<>> THEN Some(prompt) ELSE current

SetCalibrationPrompt(prompt) ==
    /\ wpc = "idle"
    /\ calibration_prompt' = set_calibration_prompt(calibration_prompt, prompt)
    /\ UNCHANGED <<nchunks, k, full_text, calls, result, wpc>>
    /\ UNCHANGED <<procVars, recVars, mainVars>>

\* transcribe_chunks up to the loop
TranscribeChunksCall(n) ==
    /\ wpc = "idle"
    /\ nchunks' = n
    /\ full_text' = <<>>
    /\ calls' = <<>>
    /\ IF n = 0
       THEN /\ result' = Some([ok |-> TRUE, text |-> <<>>])
            /\ wpc' = "returned"
            /\ k' = 0
       ELSE /\ result' = <<>>
            /\ wpc' = IF n = 1 THEN "transcribe" ELSE "loop"
            /\ k' = 1
    /\ UNCHANGED calibration_prompt
    /\ UNCHANGED <<procVars, recVars, mainVars>>

\* transcribe(&chunks[0]), the single-chunk path
Transcribe(o) ==
    /\ wpc = "transcribe"
    /\ IF o.create # None
       THEN /\ result' = Some([ok |-> FALSE, error |-> FailureOf(o)[1]])
            /\ UNCHANGED calls
       ELSE /\ calls' = Append(calls, [chunk |-> 1, prompt |-> calibration_prompt,
                                       outcome |-> o])
            /\ result' = IF FailureOf(o) # None
                           THEN Some([ok |-> FALSE, error |-> FailureOf(o)[1]])
                         ELSE Some([ok |-> TRUE, text |-> ReadSegments(o)])
    /\ wpc' = "returned"
    /\ UNCHANGED <<calibration_prompt, nchunks, k, full_text>>
    /\ UNCHANGED <<procVars, recVars, mainVars>>

\* one iteration of the loop of transcribe_chunks, and the return after the
\* last one
TranscribeLoop(o) ==
    /\ wpc = "loop"
    /\ LET built == BuildPrompt(calibration_prompt, full_text)
           prompt == IF built.prompt = <<>> THEN None ELSE Some(built.prompt)
           text == full_text \o ReadSegments(o)
       IN  IF o.create # None
           THEN /\ result' = Some([ok |-> FALSE, error |-> FailureOf(o)[1]])
                /\ wpc' = "returned"
                /\ UNCHANGED <<calls, full_text, k>>
           ELSE IF built.panic
           THEN /\ wpc' = "panicked"
                /\ UNCHANGED <<calls, full_text, k, result>>
           ELSE /\ calls' = Append(calls, [chunk |-> k, prompt |-> prompt, outcome |-> o])
                /\ IF FailureOf(o) # None
                   THEN /\ result' = Some([ok |-> FALSE, error |-> FailureOf(o)[1]])
                        /\ wpc' = "returned"
                        /\ UNCHANGED <<full_text, k>>
                   ELSE /\ full_text' = text
                        /\ IF k = nchunks
                           THEN /\ result' = Some([ok |-> TRUE, text |-> text])
                                /\ wpc' = "returned"
                                /\ k' = k
                           ELSE /\ k' = k + 1
                                /\ UNCHANGED <<result, wpc>>
    /\ UNCHANGED <<calibration_prompt, nchunks>>
    /\ UNCHANGED <<procVars, recVars, mainVars>>

NextWhisper ==
    \/ \E p \in CalPrompts : SetCalibrationPrompt(p)
    \/ \E n \in 0..MaxChunks : TranscribeChunksCall(n)
    \/ \E o \in EngineOutcomes : Transcribe(o)
    \/ \E o \in EngineOutcomes : TranscribeLoop(o)

SpecWhisper == InitWhisper /\ [][NextWhisper]_vars

\* tests::test_chunking: chunk 2.0 s, overlap 0.5 s, min 0.5 s and 5 s of
\* constant 0.5, with half a second as one sample (chunk_len 4, overlap_len 1,
\* min_len 1, 10 samples)
TestChunkingConfig ==
    [chunk_duration |-> 4 * DurUnit, overlap |-> DurUnit, min_chunk |-> DurUnit]
TestChunkingAudio == [i \in 1..10 |-> 500]

\* a call of process or of chunk_with_overlap with any config and any
\* signal, or the call made by tests::test_chunking
InitProc ==
    /\ WhisperIdle /\ RecIdle /\ MainIdle
    /\ overflow_checks \in BOOLEAN
    /\ \/ /\ cfg \in Configs
          /\ entry \in {"process", "chunk_with_overlap"}
          /\ audio \in SeqsUpTo(Samples, MaxLen)
       \/ /\ cfg = TestChunkingConfig
          /\ entry = "chunk_with_overlap"
          /\ audio = TestChunkingAudio
    /\ trimmed = <<>>
    /\ signal = <<>>
    /\ chunks = <<>>
    /\ pos = 0
    /\ starts = <<>>
    /\ ppc = "call"

\* process: step 1, trim_silence, and the early return on an empty result
ProcessTrim ==
    /\ ppc = "call" /\ entry = "process"
    /\ trimmed' = trim_silence(audio)
    /\ ppc' = IF trim_silence(audio) = <<>> THEN "no_speech" ELSE "normalize"
    /\ UNCHANGED <<cfg, overflow_checks, entry, audio, signal, chunks, pos, starts>>
    /\ UNCHANGED <<whisperVars, recVars, mainVars>>

\* process: step 2, normalize, the result is handed to chunk_with_overlap
ProcessNormalize ==
    /\ ppc = "normalize"
    /\ signal' = normalize(trimmed)
    /\ ppc' = "chunk"
    /\ UNCHANGED <<cfg, overflow_checks, entry, audio, trimmed, chunks, pos, starts>>
    /\ UNCHANGED <<whisperVars, recVars, mainVars>>

\* a direct call of chunk_with_overlap (as tests::test_chunking does)
ChunkCall ==
    /\ ppc = "call" /\ entry = "chunk_with_overlap"
    /\ signal' = audio
    /\ ppc' = "chunk"
    /\ UNCHANGED <<cfg, overflow_checks, entry, audio, trimmed, chunks, pos, starts>>
    /\ UNCHANGED <<whisperVars, recVars, mainVars>>

\* chunk_with_overlap up to the loop: the single-chunk early return
ChunkEnter ==
    /\ ppc = "chunk"
    /\ IF Len(signal) <= chunk_samples
       THEN /\ chunks' = ShortResult(signal, min_samples)
            /\ starts' = IF chunks' = <<>> THEN <<>> ELSE <<0>>
            /\ ppc' = "done"
       ELSE /\ chunks' = <<>>
            /\ starts' = <<>>
            /\ ppc' = "loop"
    /\ pos' = 0
    /\ UNCHANGED <<cfg, overflow_checks, entry, audio, trimmed, signal>>
    /\ UNCHANGED <<whisperVars, recVars, mainVars>>

\* one evaluation of the while condition, and one iteration of the body when
\* it holds.  The guard on the number of chunks caps the run of a config whose
\* step is 0 (the position never moves and a chunk is pushed for ever).
ChunkLoop ==
    /\ ppc = "loop"
    /\ Len(chunks) <= Len(signal)
    /\ IF pos < Len(signal)
       THEN LET end == Min2(pos + chunk_samples, Len(signal))
                chunk == Slice(signal, pos, end)
                pushed == Len(chunk) >= min_samples
                newChunks == IF pushed THEN Append(chunks, chunk) ELSE chunks
                newPos == pos + step
            IN  /\ chunks' = newChunks
                /\ starts' = IF pushed THEN Append(starts, pos) ELSE starts
                /\ pos' = newPos
                /\ ppc' = IF newPos > Len(signal) /\ overflow_checks
                            THEN "panicked"
                          ELSE IF WrappingSub(Len(signal), newPos) < min_samples
                                  /\ newChunks # <<>>
                            THEN "done"
                          ELSE "loop"
       ELSE /\ ppc' = "done"
            /\ UNCHANGED <<chunks, starts, pos>>
    /\ UNCHANGED <<cfg, overflow_checks, entry, audio, trimmed, signal>>
    /\ UNCHANGED <<whisperVars, recVars, mainVars>>

NextProc == ProcessTrim \/ ProcessNormalize \/ ChunkCall \/ ChunkEnter \/ ChunkLoop

SpecProc == InitProc /\ [][NextProc]_vars

(***************************************************************************)
(* audio.rs.  The capture source runs the input callback on its own        *)
(* thread, one block at a time; start(), stop() and the drop of the stream *)
(* run on the control thread.  Mutex::lock blocks while the mutex is held; *)
(* nothing panics while holding it, so it is never poisoned and lock()     *)
(* returns Ok.                                                             *)
(***************************************************************************)
I16_MAX == 32767

\* the n-th sample the capture source delivers, as an f32 (in thousandths) and
\* as an i16: every sample of a run has its own value, so that a lost, a
\* repeated or a misplaced sample shows in the buffer
F32Sample(n) == IF n % 2 = 0 THEN n * 50 ELSE -(n * 50)
I16Sample(n) == IF n % 2 = 0 THEN n * 2500 ELSE -(n * 2500)

\* *v as f32 / i16::MAX as f32, on the thousandths grid
I16ToF32(v) == IF v < 0 THEN -((-v * 1000) \div I16_MAX) ELSE (v * 1000) \div I16_MAX

\* the samples delivered before the block at hand
RECURSIVE SamplesIn(_)
SamplesIn(blocks) ==
    IF blocks = <<>> THEN 0 ELSE Len(Head(blocks).data) + SamplesIn(Tail(blocks))

\* the next block of n samples in format fmt
Block(fmt, n) ==
    [i \in 1..n |-> IF fmt = "F32" THEN F32Sample(SamplesIn(delivered) + i)
                                   ELSE I16Sample(SamplesIn(delivered) + i)]

\* a lock() that does not wait for the holder
CanLock_noExclusion == TRUE

\* Mutex::lock returns once no other thread holds the mutex
CanLock == lock = "free"

\* a drain that leaves the samples in place
AfterDrain_kept(b) == b

\* the buffer after b.drain(..)
AfterDrain(b) == <<>>

InitRec == ProcIdle /\ WhisperIdle /\ RecIdle /\ MainIdle

\* the sample formats start() builds a stream for
SampleFormats == {"F32", "I16"}

\* what the host can answer to one start(): no default input device, no
\* default input config, a default format other than F32 and I16, a stream
\* that cannot be built or cannot be played, or a stream in a supported format
StartOutcomes ==
    {"no_device", "no_config", "unsupported_format", "build_failed", "play_failed"}
    \cup SampleFormats

\* how start() ends: every failure goes through unwrap() or panic!()
StartResult(dev) == IF dev \in SampleFormats THEN "stream" ELSE "panic"

\* start() on a host that answers dev: the stream is built and played, or
\* the thread panics; the buffer is not touched.  Nothing runs on the
\* control thread after a panic.
Start(dev) ==
    /\ stream = <<>>
    /\ start_result # "panic"
    /\ start_result' = StartResult(dev)
    /\ stream' = IF dev \in SampleFormats THEN <<dev>> ELSE stream
    /\ UNCHANGED <<buffer, lock, cb_pc, cb_data, cb_i, st_pc, returned, delivered, fresh>>
    /\ UNCHANGED <<procVars, whisperVars, mainVars>>

\* drop(stream): no callback is started after it
DropStream ==
    /\ stream # <<>>
    /\ stream' = <<>>
    /\ UNCHANGED <<buffer, lock, cb_pc, cb_data, cb_i, st_pc, returned, delivered, fresh,
                   start_result>>
    /\ UNCHANGED <<procVars, whisperVars, mainVars>>

\* the capture source calls the input callback with a block, and the
\* callback takes the lock
CallbackLock(n) ==
    /\ stream # <<>> /\ cb_pc = "idle"
    /\ Len(delivered) < MaxBlocks
    /\ CanLock
    /\ lock' = "callback"
    /\ cb_pc' = "locked"
    /\ cb_data' = [fmt |-> stream[1], data |-> Block(stream[1], n)]
    /\ cb_i' = 0
    /\ delivered' = Append(delivered, [fmt |-> stream[1], data |-> Block(stream[1], n)])
    /\ UNCHANGED <<buffer, stream, st_pc, returned, fresh, start_result>>
    /\ UNCHANGED <<procVars, whisperVars, mainVars>>

\* F32 callback: b.extend_from_slice(data), then the guard is dropped
CallbackExtend ==
    /\ cb_pc = "locked" /\ cb_data.fmt = "F32"
    /\ buffer' = buffer \o cb_data.data
    /\ fresh' = fresh + Len(cb_data.data)
    /\ lock' = "free"
    /\ cb_pc' = "idle"
    /\ cb_data' = <<>>
    /\ UNCHANGED <<stream, cb_i, st_pc, returned, delivered, start_result>>
    /\ UNCHANGED <<procVars, whisperVars, mainVars>>

\* I16 callback: one b.push(*v as f32 / i16::MAX as f32) of the for loop; the
\* guard is dropped after the last one
CallbackPush ==
    /\ cb_pc = "locked" /\ cb_data.fmt = "I16"
    /\ buffer' = Append(buffer, I16ToF32(cb_data.data[cb_i + 1]))
    /\ fresh' = fresh + 1
    /\ IF cb_i + 1 = Len(cb_data.data)
       THEN /\ lock' = "free"
            /\ cb_pc' = "idle"
            /\ cb_data' = <<>>
            /\ cb_i' = 0
       ELSE /\ cb_i' = cb_i + 1
            /\ UNCHANGED <<lock, cb_pc, cb_data>>
    /\ UNCHANGED <<stream, st_pc, returned, delivered, start_result>>
    /\ UNCHANGED <<procVars, whisperVars, mainVars>>

\* stop(): self.buffer.lock()
StopLock ==
    /\ st_pc = "idle"
    /\ start_result # "panic"
    /\ Len(returned) < MaxStops
    /\ CanLock
    /\ lock' = "stop"
    /\ st_pc' = "locked"
    /\ UNCHANGED <<buffer, stream, cb_pc, cb_data, cb_i, returned, delivered, fresh,
                   start_result>>
    /\ UNCHANGED <<procVars, whisperVars, mainVars>>

\* stop(): b.drain(..).collect(), the guard is dropped, the Vec is returned
StopDrain ==
    /\ st_pc = "locked"
    /\ returned' = Append(returned, [samples |-> buffer, fresh |-> fresh])
    /\ buffer' = AfterDrain(buffer)
    /\ fresh' = 0
    /\ lock' = "free"
    /\ st_pc' = "idle"
    /\ UNCHANGED <<stream, cb_pc, cb_data, cb_i, delivered, start_result>>
    /\ UNCHANGED <<procVars, whisperVars, mainVars>>

NextRec ==
    \/ \E dev \in StartOutcomes : Start(dev)
    \/ DropStream
    \/ \E n \in 1..BlockLen : CallbackLock(n)
    \/ CallbackExtend
    \/ CallbackPush
    \/ StopLock
    \/ StopDrain

SpecRec == InitRec /\ [][NextRec]_vars

(***************************************************************************)
(* main.rs, calibration.rs, ui.rs: the control thread.  What the recorder, *)
(* the processor and the engine yield for a recording is an input here     *)
(* (no audio, no speech, an engine error or a text).                       *)
(***************************************************************************)
\* the characters of a calibration transcription: the phrases are Russian,
\* so a space and a two-byte letter
CalChars == {" ", "ya"}
CalTexts == SeqsUpTo(CalChars, MaxCalTextLen)
CalOutcomes ==
    {[kind |-> kd, text |-> <<>>] : kd \in {"no_audio", "no_speech", "error"}}
    \cup {[kind |-> "ok", text |-> t] : t \in CalTexts}

\* the contents a profile.json can have: unreadable, or a prompt of any
\* length (only the length of a loaded prompt matters to main)
ProfileFiles ==
    {<<[ok |-> FALSE, prompt |-> <<>>]>>}
    \cup {<<[ok |-> TRUE, prompt |-> t]>> : t \in SeqsUpTo({"ya"}, PromptLimit + 1)}

\* str::trim
RECURSIVE TrimStart_(_)
TrimStart_(t) == IF t # <<>> /\ Head(t) = " " THEN TrimStart_(Tail(t)) ELSE t
RECURSIVE TrimEnd_(_)
TrimEnd_(t) ==
    IF t # <<>> /\ t[Len(t)] = " " THEN TrimEnd_(SubSeq(t, 1, Len(t) - 1)) ELSE t
Trim(t) == TrimEnd_(TrimStart_(t))

\* VoiceProfile::exists and VoiceProfile::load
ProfileExists == profile_file # <<>>
ProfileLoad == IF profile_file # <<>> /\ profile_file[1].ok THEN profile_file ELSE <<>>

\* the Ok arm of the match on transcribe_chunks: the text is collected when
\* its trimmed form is longer than the minimum
Collect(collected, text) ==
    IF ByteLen(Trim(text)) > MinCalLen THEN collected \o <<" ">> \o Trim(text)
    ELSE collected

\* "Build profile (last 300 chars)": the prompt, or a panic when the slice
\* start is inside a character
BuildProfilePrompt(collected) ==
    IF ByteLen(collected) > PromptLimit
    THEN IF is_char_boundary(collected, ByteLen(collected) - PromptLimit)
         THEN [panic |-> FALSE,
               prompt |-> ByteSliceFrom(collected, ByteLen(collected) - PromptLimit)]
         ELSE [panic |-> TRUE, prompt |-> <<>>]
    ELSE [panic |-> FALSE, prompt |-> Trim(collected)]

InitMain ==
    /\ ProcIdle /\ WhisperIdle /\ RecIdle
    /\ force_calibrate \in BOOLEAN
    /\ profile_file \in {<<>>} \cup ProfileFiles
    /\ phrase = 0
    /\ collected_text = <<>>
    /\ recording = FALSE
    /\ handed = <<>>
    /\ session_log = <<>>
    /\ skipped = {}
    /\ mpc = "main"

\* main: "Handle calibration", the branch taken and the load of a profile
MainHandleCalibration ==
    /\ mpc = "main"
    /\ IF force_calibrate \/ ~ProfileExists
       THEN /\ mpc' = "cal_wait"
            /\ phrase' = 1
            /\ UNCHANGED <<calibration_prompt, handed>>
       ELSE /\ mpc' = "ui"
            /\ phrase' = phrase
            /\ IF ProfileLoad # <<>>
               THEN /\ calibration_prompt'
                        = set_calibration_prompt(calibration_prompt, ProfileLoad[1].prompt)
                    /\ handed' = Append(handed, [from |-> "load",
                                                 source |-> ProfileLoad[1].prompt,
                                                 prompt |-> ProfileLoad[1].prompt])
               ELSE UNCHANGED <<calibration_prompt, handed>>
    /\ UNCHANGED <<force_calibrate, profile_file, collected_text, recording,
                   session_log, skipped>>
    /\ UNCHANGED <<procVars, recVars, nchunks, k, full_text, calls, result, wpc>>

\* the events of the end of a session: drop(stream), then recorder.stop()
EndSession == <<"drop", "stop">>

\* run_calibration, "Wait for space to start": one key event.  SPACE leaves
\* the loop and recorder.start() is called on a host that answers dev; ESC
\* prints "skipped" and continues the same loop; any other key is ignored; a
\* failed read returns the error.
CalWaitKey(key, dev) ==
    /\ mpc = "cal_wait"
    /\ CASE key = "space" ->
              /\ session_log' = Append(session_log, "start")
              /\ IF StartResult(dev) = "panic"
                 THEN /\ mpc' = "panicked"
                      /\ UNCHANGED stream
                 ELSE /\ mpc' = "cal_rec"
                      /\ stream' = <<dev>>
              /\ UNCHANGED skipped
         [] key = "esc" ->
              /\ skipped' = skipped \cup {phrase}
              /\ UNCHANGED <<stream, session_log, mpc>>
         [] key = "read_error" ->
              /\ mpc' = "exit_err"
              /\ UNCHANGED <<stream, session_log, skipped>>
         [] OTHER -> UNCHANGED <<stream, session_log, skipped, mpc>>
    /\ UNCHANGED <<force_calibrate, profile_file, phrase, collected_text, recording, handed>>
    /\ UNCHANGED <<procVars, whisperVars>>
    /\ UNCHANGED <<buffer, lock, cb_pc, cb_data, cb_i, st_pc, returned, delivered, fresh,
                   start_result>>

\* run_calibration, "Wait for space to stop" and the rest of the loop body:
\* SPACE drops the stream, stops, processes and transcribes; the for loop
\* moves to the next phrase whatever came out.  A failed read returns the
\* error, which drops the stream.
CalRecKey(key, outcome) ==
    /\ mpc = "cal_rec"
    /\ CASE key = "space" ->
              /\ stream' = <<>>
              /\ session_log' = session_log \o EndSession
              /\ collected_text' = IF outcome.kind = "ok"
                                     THEN Collect(collected_text, outcome.text)
                                   ELSE collected_text
              /\ phrase' = phrase + 1
              /\ mpc' = IF phrase = NumPhrases THEN "cal_build" ELSE "cal_wait"
         [] key = "read_error" ->
              /\ stream' = <<>>
              /\ session_log' = Append(session_log, "drop")
              /\ mpc' = "exit_err"
              /\ UNCHANGED <<collected_text, phrase>>
         [] OTHER -> UNCHANGED <<stream, session_log, collected_text, phrase, mpc>>
    /\ UNCHANGED <<force_calibrate, profile_file, recording, handed, skipped>>
    /\ UNCHANGED <<procVars, whisperVars>>
    /\ UNCHANGED <<buffer, lock, cb_pc, cb_data, cb_i, st_pc, returned, delivered, fresh,
                   start_result>>

\* run_calibration after the loop: the prompt is built, the profile saved
\* (save_ok tells whether save() succeeds) and returned; main hands its
\* prompt to set_calibration_prompt.  A failed save returns the error
\* through both `?`.
CalBuildProfile(save_ok) ==
    /\ mpc = "cal_build"
    /\ LET built == BuildProfilePrompt(collected_text)
       IN  IF built.panic
           THEN /\ mpc' = "panicked"
                /\ UNCHANGED <<profile_file, calibration_prompt, handed>>
           ELSE IF ~save_ok
           THEN /\ mpc' = "exit_err"
                /\ UNCHANGED <<profile_file, calibration_prompt, handed>>
           ELSE /\ mpc' = "ui"
                /\ profile_file' = <<[ok |-> TRUE, prompt |-> built.prompt]>>
                /\ calibration_prompt'
                     = set_calibration_prompt(calibration_prompt, built.prompt)
                /\ handed' = Append(handed, [from |-> "calibration",
                                             source |-> collected_text,
                                             prompt |-> built.prompt])
    /\ UNCHANGED <<force_calibrate, phrase, collected_text, recording, session_log,
                   skipped>>
    /\ UNCHANGED <<procVars, recVars, nchunks, k, full_text, calls, result, wpc>>

\* a toggle that starts whatever the flag says
ToggleStarts_always(rec) == TRUE

\* the toggle closure: if !recording.load(..) it starts, else it stops
ToggleStarts(rec) == ~rec

\* run_ui: one key event.  SPACE runs the toggle closure (start on a host
\* that answers dev, or drop the stream, stop, process and transcribe); ESC
\* and Ctrl-C leave the loop.  Leaving the loop ends main, which drops the
\* closure and the stream it may hold.
UiKey(key, dev) ==
    /\ mpc = "ui"
    /\ CASE key = "space" ->
              /\ Len(session_log) < MaxSessionOps
              /\ IF ToggleStarts(recording)
                 THEN /\ session_log' = Append(session_log, "start")
                      /\ IF StartResult(dev) = "panic"
                         THEN /\ mpc' = "panicked"
                              /\ UNCHANGED <<stream, recording>>
                         ELSE /\ stream' = <<dev>>
                              /\ recording' = TRUE
                              /\ UNCHANGED mpc
                 ELSE /\ stream' = <<>>
                      /\ session_log' = session_log \o EndSession
                      /\ recording' = FALSE
                      /\ UNCHANGED mpc
         [] key \in {"esc", "ctrl_c", "read_error"} ->
              /\ mpc' = IF key = "read_error" THEN "exit_err" ELSE "exit_ok"
              /\ stream' = <<>>
              /\ session_log' = IF stream # <<>> THEN Append(session_log, "drop")
                                ELSE session_log
              /\ UNCHANGED recording
         [] OTHER -> UNCHANGED <<stream, session_log, recording, mpc>>
    /\ UNCHANGED <<force_calibrate, profile_file, phrase, collected_text, handed, skipped>>
    /\ UNCHANGED <<procVars, whisperVars>>
    /\ UNCHANGED <<buffer, lock, cb_pc, cb_data, cb_i, st_pc, returned, delivered, fresh,
                   start_result>>

Keys == {"space", "esc", "ctrl_c", "other", "read_error"}

\* the host's answer to start() is drawn with the SPACE that calls it, and
\* the outcome of a recording with the SPACE that ends it
StartOutcomesOn(key) == IF key = "space" THEN StartOutcomes ELSE {"no_device"}
CalOutcomesOn(key) ==
    IF key = "space" THEN CalOutcomes ELSE {[kind |-> "no_audio", text |-> <<>>]}

NextMain ==
    \/ MainHandleCalibration
    \/ \E key \in Keys : \E dev \in StartOutcomesOn(key) : CalWaitKey(key, dev)
    \/ \E key \in Keys : \E outcome \in CalOutcomesOn(key) : CalRecKey(key, outcome)
    \/ \E save_ok \in BOOLEAN : CalBuildProfile(save_ok)
    \/ \E key \in Keys : \E dev \in StartOutcomesOn(key) : UiKey(key, dev)

SpecMain == InitMain /\ [][NextMain]_vars

(***************************************************************************)
(* Claims on the capture buffer (checked under SpecRec).                   *)
(***************************************************************************)
\* a delivered block as the samples the callback appends for it
AsF32(b) ==
    IF b.fmt = "F32" THEN b.data ELSE [i \in 1..Len(b.data) |-> I16ToF32(b.data[i])]

\* the samples of the first n delivered blocks, in delivery order
RECURSIVE DeliveredUpTo(_)
DeliveredUpTo(n) == IF n = 0 THEN <<>> ELSE DeliveredUpTo(n - 1) \o AsF32(delivered[n])

\* the samples of the first n stop() results, in call order
RECURSIVE ReturnedUpTo(_)
ReturnedUpTo(n) == IF n = 0 THEN <<>> ELSE ReturnedUpTo(n - 1) \o returned[n].samples

\* the delivered samples appended so far: all of them, less the part of the
\* running callback's block that it has not appended yet
AppendedSoFar ==
    IF cb_pc = "locked"
    THEN DeliveredUpTo(Len(delivered) - 1)
            \o SubSeq(AsF32(delivered[Len(delivered)]), 1, cb_i)
    ELSE DeliveredUpTo(Len(delivered))

\* C4: append and drain exclude each other; every appended sample is in
\* exactly one stop() result or still in the buffer, in delivery order, and
\* no stop() result ends inside a block.
C4_AppendDrainExclusive ==
    /\ ~(cb_pc = "locked" /\ st_pc = "locked")
    /\ ReturnedUpTo(Len(returned)) \o buffer = AppendedSoFar
    /\ \A j \in 1..Len(returned) :
           \E n \in 0..Len(delivered) :
               Len(ReturnedUpTo(j)) = Len(DeliveredUpTo(n))

C4_Witness ==
    /\ Len(returned) >= 1 /\ Len(returned[1].samples) = 2
    /\ Len(delivered) = 2
    /\ delivered[2].fmt = "I16" /\ Len(delivered[2].data) = 2
    /\ cb_pc = "locked" /\ cb_i = 1
    /\ buffer # <<>>

\* the samples appended before the j-th stop() and after the one before it
FreshBefore(j) ==
    LET from == Len(ReturnedUpTo(j - 1))
    IN  SubSeq(AppendedSoFar, from + 1, from + returned[j].fresh)

\* C5: stop() returns everything accumulated since the drain before it, in
\* order, and leaves the accumulator empty: a stop() with no append since
\* the last one (or with nothing ever captured) returns an empty sequence.
C5_StopDrainsAll ==
    /\ Len(buffer) = fresh
    /\ \A j \in 1..Len(returned) :
           /\ Len(returned[j].samples) = returned[j].fresh
           /\ returned[j].samples = FreshBefore(j)

C5_Witness ==
    /\ Len(returned) = 3
    /\ Len(returned[1].samples) > 1
    /\ returned[2].fresh = 0 /\ returned[2].samples = <<>>
    /\ returned[3].samples # <<>>
    /\ buffer = <<>> /\ st_pc = "idle"

(***************************************************************************)
(* Claims on the signal processor (checked under SpecProc).                *)
(***************************************************************************)
\* chunk_with_overlap has returned (directly or as the last step of process)
ChunkReturned == ppc = "done"

\* process has returned: early after an empty trim, or with the chunks
ProcessReturned == entry = "process" /\ ppc \in {"no_speech", "done"}

\* C1: when no analysis frame of the input has RMS above the silence
\* threshold, trim_silence returns an empty sequence and process returns
\* zero chunks.
C1_SilenceYieldsNothing ==
    (entry = "process" /\ LoudFrames(audio) = {} /\ ppc # "call")
        => /\ trimmed = <<>>
           /\ (ProcessReturned => chunks = <<>>)

\* the config of C2: 0 < overlap_len < chunk_len and min_len > 0
ValidLens ==
    /\ 0 < overlap_samples
    /\ overlap_samples < chunk_samples
    /\ min_samples > 0

LastN(s, n) == SubSeq(s, Len(s) - n + 1, Len(s))
FirstN(s, n) == SubSeq(s, 1, n)

\* C2: for a valid config and a signal longer than chunk_len the chunks come
\* in time order, every chunk but the last has length exactly chunk_len, and
\* the last overlap_len samples of a chunk are the first overlap_len samples
\* of the next one.
C2_FullChunksAndOverlap ==
    (ChunkReturned /\ ValidLens /\ Len(signal) > chunk_samples)
        => /\ \A i \in 1..(Len(chunks) - 1) :
                /\ starts[i] < starts[i + 1]
                /\ Len(chunks[i]) = chunk_samples
                /\ Len(chunks[i + 1]) >= overlap_samples
                /\ LastN(chunks[i], overlap_samples)
                      = FirstN(chunks[i + 1], overlap_samples)

\* C8: a signal no longer than chunk_len comes back as exactly one chunk, the
\* whole signal, when its length is at least min_len, and as no chunk
\* otherwise.
C8_ShortSignal ==
    (ChunkReturned /\ Len(signal) <= chunk_samples)
        => chunks = (IF Len(signal) >= min_samples THEN <<signal>> ELSE <<>>)

C8_Witness ==
    /\ ChunkReturned
    /\ 0 < Len(signal) /\ Len(signal) <= chunk_samples
    /\ Len(signal) >= min_samples /\ min_samples > 0
    /\ chunks = <<signal>>

(***************************************************************************)
(* Claims on the chunk transcription loop (checked under SpecWhisper).     *)
(***************************************************************************)
\* the segment texts invocation i handed over: the texts of the segments
\* whose read succeeded, in segment order (none when the count was not read)
RECURSIVE SegTextsUpTo(_, _)
SegTextsUpTo(reads, n) ==
    IF n = 0 THEN <<>>
    ELSE SegTextsUpTo(reads, n - 1) \o (IF reads[n] = <<>> THEN <<>> ELSE reads[n][1])

ProducedBy(i) ==
    IF calls[i].outcome.n_segments = <<>> THEN <<>>
    ELSE SegTextsUpTo(calls[i].outcome.reads, Len(calls[i].outcome.reads))

\* the text produced by invocations 1..i-1
RECURSIVE TextBefore(_)
TextBefore(i) == IF i <= 1 THEN <<>> ELSE TextBefore(i - 1) \o ProducedBy(i - 1)

\* the trailing at-most-n characters of t
TailChars(t, n) == SubSeq(t, Len(t) - Min2(n, Len(t)) + 1, Len(t))

\* calibration prompt and context, joined by one space when both are there
JoinedPrompt(cal, ctx) ==
    IF cal = <<>> THEN (IF ctx = <<>> THEN <<>> ELSE <<ctx>>)
    ELSE IF ctx = <<>> THEN cal
    ELSE <<cal[1] \o <<" ">> \o ctx>>

\* C3: in a run over more than one chunk, the prompt of every chunk after the
\* first is the calibration prompt (if set) followed by the trailing
\* at-most-100 characters of the text of the earlier chunks, joined by one
\* space when both are non-empty; the context is counted in characters.
C3_PromptCarriesCharContext ==
    nchunks > 1 =>
        \A i \in 2..Len(calls) :
            calls[i].prompt
              = JoinedPrompt(calibration_prompt, TailChars(TextBefore(i), CtxLimit))

\* C6: when the engine invocation fails on a chunk, the run returns at once
\* with an error carrying the engine's error, no text is returned, and no
\* later chunk is given to the engine.
C6_FailureAbortsRun ==
    \A i \in 1..Len(calls) :
        calls[i].outcome.full # <<>>
            => /\ i = Len(calls)
               /\ wpc = "returned"
               /\ result = <<[ok |-> FALSE,
                              error |-> [msg |-> "Failed to run model",
                                         cause |-> calls[i].outcome.full[1]]]>>

C6_Witness ==
    /\ nchunks = 3 /\ Len(calls) = 2
    /\ calls[2].outcome.full # <<>>
    /\ ProducedBy(1) # <<>>
    /\ wpc = "returned" /\ ~result[1].ok

\* C7: a successful run over N chunks invokes the engine N times, once per
\* chunk in chunk order (not at all for an empty list, whose text is empty),
\* and returns the segment texts of the invocations concatenated in order
\* with nothing between them.
C7_OneCallPerChunkConcatenated ==
    (wpc = "returned" /\ result # <<>> /\ result[1].ok)
        => /\ Len(calls) = nchunks
           /\ \A i \in 1..Len(calls) : calls[i].chunk = i
           /\ result[1].text = TextBefore(Len(calls) + 1)

C7_Witness ==
    /\ wpc = "returned" /\ result # <<>> /\ result[1].ok
    /\ nchunks = 3 /\ Len(calls) = 3
    /\ \A i \in 1..3 : ProducedBy(i) # <<>>
    /\ Len(result[1].text) = 3

\* C9: the prompt of the first chunk of a run (and of the only chunk of a
\* single-chunk run) is the calibration prompt alone, or no prompt when none
\* is set.
C9_FirstPromptIsCalibration ==
    calls # <<>> => calls[1].prompt = calibration_prompt

C9_Witness ==
    /\ calibration_prompt # <<>>
    /\ nchunks > 1 /\ Len(calls) >= 2
    /\ calls[1].prompt = calibration_prompt
    /\ calls[2].prompt # calibration_prompt

(***************************************************************************)
(* Claims on the calibration prompt (checked under SpecMain).              *)
(***************************************************************************)
\* C10: a prompt handed to set_calibration_prompt is never longer than 300
\* characters; one made from a text longer than 300 characters (collected
\* by a calibration or loaded from a profile) is that text's trailing 300
\* characters.
C10_PromptAtMostLimitChars ==
    \A i \in 1..Len(handed) :
        /\ Len(handed[i].prompt) <= PromptLimit
        /\ (Len(handed[i].source) > PromptLimit
               => handed[i].prompt = TailChars(handed[i].source, PromptLimit))

(***************************************************************************)
(* Claims on the profile and the control thread (checked under SpecMain).  *)
(***************************************************************************)
\* C11: a profile persistence failure never keeps the pipeline from running:
\* the step that loads the profile goes on to the calibration or to the
\* record/transcribe loop, and the step that saves the profile never ends
\* the program with an error.
C11_ProfileFailureNotFatal ==
    [][/\ mpc = "main" => mpc' \in {"cal_wait", "ui"}
       /\ mpc = "cal_build" => mpc' # "exit_err"]_vars

(***************************************************************************)
(* Claims on start() (checked under SpecRec).                              *)
(***************************************************************************)
\* C12: when no input device is available, or the device rejects the stream
\* format or fails to start, start() hands an error back to its caller; it
\* never crashes the program.
C12_StartFailureIsReturned == start_result # "panic"

\* C13: start() clears the accumulator: when a start() returns a stream the
\* buffer is empty, whatever it held before, so the next stop() returns only
\* samples delivered since that start().
C13_StartClearsAccumulator ==
    [][(stream = <<>> /\ stream' # <<>>) => buffer' = <<>>]_vars

(***************************************************************************)
(* Claims on engine failures (checked under SpecWhisper).                  *)
(***************************************************************************)
\* an engine call failed in invocation i: the inference, the read of the
\* segment count or the read of a segment's text
EngineFailedIn(i) ==
    LET o == calls[i].outcome
    IN  \/ o.full # None
        \/ o.n_segments = None
        \/ \E j \in 1..Len(o.reads) : o.reads[j] = None

\* C14: every engine-level failure of a run reaches the caller as an error:
\* a run that returns a text had no failed engine call in any invocation.
C14_EngineFailuresSurface ==
    (wpc = "returned" /\ result # <<>> /\ result[1].ok)
        => \A i \in 1..Len(calls) : ~EngineFailedIn(i)

(***************************************************************************)
(* Claims on chunking and trimming (checked under SpecProc).               *)
(***************************************************************************)
\* chunk_with_overlap is in or past its loop
InChunkLoop == ppc \in {"loop", "done", "panicked"}

\* the call is the one of tests::test_chunking
IsTestChunking == cfg = TestChunkingConfig /\ audio = TestChunkingAudio

\* C15: for a signal longer than chunk_len, with min_len <= chunk_len,
\* chunk_with_overlap completes normally and its first chunk is exactly the
\* first chunk_len samples; in the scenario of tests::test_chunking it
\* returns at least 2 chunks, the first of length exactly chunk_len.
C15_LongSignalFirstChunk ==
    (InChunkLoop /\ Len(signal) > chunk_samples /\ min_samples <= chunk_samples)
        => /\ ppc # "panicked"
           /\ ChunkReturned
                => /\ chunks # <<>>
                   /\ chunks[1] = FirstN(signal, chunk_samples)
                   /\ IsTestChunking
                        => (Len(chunks) >= 2 /\ Len(chunks[1]) = chunk_samples)

\* a sample whose amplitude is above the silence threshold
AboveThreshold(s) == s * s > ThresholdSq

\* the lengths of the silent runs at the two ends of a
RECURSIVE LeadSilence(_)
LeadSilence(a) ==
    IF a = <<>> \/ AboveThreshold(Head(a)) THEN 0 ELSE 1 + LeadSilence(Tail(a))
RECURSIVE TrailSilence(_)
TrailSilence(a) ==
    IF a = <<>> \/ AboveThreshold(a[Len(a)]) THEN 0
    ELSE 1 + TrailSilence(SubSeq(a, 1, Len(a) - 1))

\* a is silence, then a run of samples above the threshold, then silence,
\* each run non-empty
SilenceSignalSilence(a) ==
    /\ LeadSilence(a) >= 1 /\ TrailSilence(a) >= 1
    /\ LeadSilence(a) + TrailSilence(a) < Len(a)
    /\ \A i \in (LeadSilence(a) + 1)..(Len(a) - TrailSilence(a)) : AboveThreshold(a[i])

SignalRunLen(a) == Len(a) - LeadSilence(a) - TrailSilence(a)

\* the frames that hold at least one sample of the signal run
SignalFrames(a) ==
    {i \in FrameStarts(Len(a)) :
        i < Len(a) - TrailSilence(a) /\ FrameEnd(a, i) > LeadSilence(a)}

TrimHasRun == entry = "process" /\ ppc # "call"

\* C16 as stated: for silence, signal above the threshold, silence, with
\* runs of any lengths, trim_silence returns a sequence strictly shorter
\* than the input and at least as long as the signal run.
C16_TrimAnyRuns ==
    (TrimHasRun /\ SilenceSignalSilence(audio))
        => /\ Len(trimmed) < Len(audio)
           /\ Len(trimmed) >= SignalRunLen(audio)

\* C16, amended: the same holds when one of the two silence runs is at
\* least one frame long and every frame that holds a sample of the signal
\* run has RMS above the threshold (as when the runs are whole frames).
C16_TrimFramedRuns ==
    (/\ TrimHasRun /\ SilenceSignalSilence(audio)
     /\ (LeadSilence(audio) >= frame_size \/ TrailSilence(audio) >= frame_size)
     /\ SignalFrames(audio) \subseteq LoudFrames(audio))
        => /\ Len(trimmed) < Len(audio)
           /\ Len(trimmed) >= SignalRunLen(audio)

C16_Witness ==
    /\ TrimHasRun /\ SilenceSignalSilence(audio)
    /\ LeadSilence(audio) > frame_size /\ LeadSilence(audio) % frame_size # 0
    /\ SignalFrames(audio) \subseteq LoudFrames(audio)
    /\ Len(trimmed) < Len(audio)
    /\ Len(trimmed) > SignalRunLen(audio)

\* process was given an input shorter than one analysis frame
SubFrameInput == entry = "process" /\ Len(audio) < frame_size

\* C17 as stated: for every valid config, process returns no chunk on an
\* empty input and on every input shorter than one analysis frame, whatever
\* the sample values.
C17_SubFrameYieldsNothing ==
    SubFrameInput
        => /\ ppc # "panicked"
           /\ ProcessReturned => chunks = <<>>

\* C17, amended: the same holds for every config whose chunk_len and min_len
\* are both at least one analysis frame (as the default's are).
C17_SubFrameBelowMinYieldsNothing ==
    (/\ SubFrameInput
     /\ ToSamples(cfg.chunk_duration) >= frame_size
     /\ ToSamples(cfg.min_chunk) >= frame_size)
        => /\ ppc # "panicked"
           /\ ProcessReturned => chunks = <<>>

C17_Witness ==
    /\ SubFrameInput /\ audio # <<>> /\ AboveThreshold(audio[1])
    /\ ToSamples(cfg.chunk_duration) >= frame_size
    /\ ToSamples(cfg.min_chunk) >= frame_size
    /\ trimmed = audio
    /\ ppc = "done" /\ chunks = <<>>

(***************************************************************************)
(* Claims on the capture sessions of the program (checked under SpecMain). *)
(***************************************************************************)
\* the last event before position i of the log that is one of kinds, or
\* "none" when there is no such event
LastBefore(i, kinds) ==
    LET js == {j \in 1..(i - 1) : session_log[j] \in kinds}
    IN  IF js = {} THEN "none" ELSE session_log[SetMax(js)]

\* C18: in every execution of the program at most one capture session is
\* active: start() is never called while a stream of an earlier start() is
\* alive, starts and stop-drains alternate beginning with a start, and a
\* stream is dropped before its session is drained.
C18_OneSessionAtATime ==
    /\ \A i \in 1..Len(session_log) :
          /\ session_log[i] = "start"
               => /\ LastBefore(i, {"start", "drop"}) \in {"none", "drop"}
                  /\ LastBefore(i, {"start", "stop"}) \in {"none", "stop"}
          /\ session_log[i] = "stop"
               => /\ LastBefore(i, {"start", "stop"}) = "start"
                  /\ LastBefore(i, {"start", "drop"}) = "drop"
    /\ stream # <<>>
          => LastBefore(Len(session_log) + 1, {"start", "drop"}) = "start"

C18_Witness ==
    /\ mpc = "ui" /\ ~recording /\ stream = <<>>
    /\ Len(session_log) = 3 * NumPhrases + 3
    /\ session_log[Len(session_log)] = "stop"

\* C20: pressing ESC while a phrase waits for its recording skips that
\* phrase: once "skipped" has been printed for a phrase the loop is past it,
\* so no capture is started for it and no SPACE is awaited.
C20_EscSkipsPhrase == \A p \in skipped : phrase > p

(***************************************************************************)
(* Claims on the emitted chunks (checked under SpecProc).                  *)
(***************************************************************************)
\* where chunk i ends in the signal, and the length of the prefix the
\* chunks cover
ChunkEnd(i) == starts[i] + Len(chunks[i])
Covered == IF chunks = <<>> THEN 0 ELSE SetMax({ChunkEnd(i) : i \in 1..Len(chunks)})

\* C19: for a valid config with min_len <= chunk_len (min_len > 0 and
\* overlap_len < chunk_len in samples) the chunks returned are contiguous
\* slices of the signal, each of length between min_len and chunk_len, that
\* together cover a prefix of it; the uncovered suffix is strictly shorter
\* than min_len, and empty when min_len <= overlap_len and a chunk was
\* emitted.
C19_ChunksCoverPrefix ==
    (/\ ChunkReturned
     /\ min_samples > 0 /\ min_samples <= chunk_samples
     /\ overlap_samples < chunk_samples)
        => /\ \A i \in 1..Len(chunks) :
                /\ chunks[i] = Slice(signal, starts[i], ChunkEnd(i))
                /\ ChunkEnd(i) <= Len(signal)
                /\ min_samples <= Len(chunks[i])
                /\ Len(chunks[i]) <= chunk_samples
           /\ chunks # <<>> => starts[1] = 0
           /\ \A i \in 1..(Len(chunks) - 1) :
                /\ starts[i] <= starts[i + 1]
                /\ starts[i + 1] <= ChunkEnd(i)
           /\ Len(signal) - Covered < min_samples
           /\ (min_samples <= overlap_samples /\ chunks # <<>>)
                => Covered = Len(signal)

C19_Witness ==
    /\ ChunkReturned
    /\ min_samples > 0 /\ min_samples <= chunk_samples
    /\ overlap_samples < chunk_samples
    /\ Len(chunks) >= 2
    /\ Covered < Len(signal)

(***************************************************************************)
(* Claims on the arithmetic of the chunk loop (checked under SpecProc).    *)
(***************************************************************************)
\* C21: in chunk_with_overlap the window position never exceeds the signal
\* length when the remaining tail audio.len() - pos is computed after the
\* advance by the step, so the unsigned subtraction never underflows.
C21_TailSubtractionInRange == InChunkLoop => pos <= Len(signal)

\* C22: for every config whose overlap is smaller than its chunk duration
\* the step chunk_len - overlap_len computed from the truncated durations is
\* at least 1, so every iteration of the loop moves the window position
\* forward and the loop ends.
C22_PositionAdvances ==
    [][(ppc = "loop" /\ pos < Len(signal)) => (step >= 1 /\ pos' > pos)]_vars

(***************************************************************************)
(* Claims on the context cut (checked under SpecWhisper).                  *)
(***************************************************************************)
\* C23: whenever every engine invocation succeeds transcribe_chunks returns
\* a text: the cut point len - 100 of the context tail falls on a character
\* boundary for every accumulated text, so building the prompt never fails.
C23_ContextCutOnBoundary == wpc # "panicked"

====
